---- MODULE Spec2Model ----
(***************************************************************************)
(* Fixed-timestep game loop (deWiTTERS): GameLoop and its FrameActions     *)
(* iterator, src/src/gameloop.rs.                                          *)
(*                                                                         *)
(* The clock is the monotonic Instant source; tick_count is the number of  *)
(* whole milliseconds elapsed since start_time.  All usize values of the   *)
(* model stay far below 2^31, so no wrap of usize itself is reachable; the *)
(* one subtraction of next() is modelled as checked (outcome "Overflow").  *)
(***************************************************************************)
EXTENDS Integers, Sequences, FiniteSets

\* ---- bounds of the model ----
MaxTime == 400          \* largest tick_count (ms since start_time) explored
MaxDraws == 7           \* draws recorded per FrameActions instance
MaxSharedDraws == 4     \* draws per instance when several instances are live
MaxTicks == 10          \* the count of all Ticks is kept exactly up to here

\* ---- input domains ----
TpsValues == {0, 1, 7, 20, 1001}
FrameskipValues == {0, 1, 2, 5}
BootInstants == {0, 3}          \* clock reading when GameLoop::new runs
Steps == {30, 200}              \* amounts (ms) by which the clock advances
InCallDelays == {0, 30}         \* time passing inside one call of next()

Slots == {1, 2}                 \* FrameActions instances that can be live at once
HostSlots == {1}                \* the one the documented host loop uses

\* ---- program constant ----
MillisPerSecond == 1000

VARIABLES
    clock,          \* the monotonic clock, in ms
    result,         \* outcome of GameLoop::new: "pending", "Ok", "BadTps", "BadFrameSkip"
    args,           \* the arguments GameLoop::new was called with
    start_time,     \* GameLoop.start_time
    skip_ticks,     \* GameLoop.skip_ticks
    max_frameskip,  \* GameLoop.max_frameskip
    next_game_tick, \* GameLoop.next_game_tick
    it,             \* the FrameActions instances: [live, loops, rendered]
    out,            \* per instance, the items its next() has returned so far
    poll,           \* per instance, what held when actions() created it
    idleSinceDrain, \* a poll returned end-of-sequence and the clock has not moved since
    ticks_total     \* Ticks returned by all instances since construction (exact below MaxTicks)

vars == <<clock, result, args, start_time, skip_ticks, max_frameskip,
          next_game_tick, it, out, poll, idleSinceDrain, ticks_total>>

\* ---- FrameAction values (Option<FrameAction> returned by next) ----
Tick == [kind |-> "Tick", num |-> 0, den |-> 0]
None == [kind |-> "None", num |-> 0, den |-> 0]
Overflow == [kind |-> "Overflow", num |-> 0, den |-> 0]
Render(n, d) == [kind |-> "Render", num |-> n, den |-> d]

NoIter == [live |-> FALSE, loops |-> 0, rendered |-> FALSE]
NoPoll == [backToBack |-> FALSE, still |-> FALSE, start_next |-> 0,
           chained |-> FALSE, carry |-> 0, abandonedDue |-> FALSE]

\* GameLoop::tick_count: milliseconds since the game started
tick_count == clock - start_time

\* Validate with the two checks in the other order
ValidateFrameskipFirst(tps, mfs) ==
    IF mfs < 1 THEN "BadFrameSkip"
    ELSE IF tps < 1 THEN "BadTps"
    ELSE "Ok"

\* GameLoop::new, the validation of its arguments
Validate(tps, mfs) ==
    IF tps < 1 THEN "BadTps"
    ELSE IF mfs < 1 THEN "BadFrameSkip"
    ELSE "Ok"

\* SkipTicksFor rounding up instead of truncating
SkipTicksRoundedUp(tps) == (MillisPerSecond + tps - 1) \div tps

\* GameLoop::new, let skip_ticks = 1000 / tps
SkipTicksFor(tps) == MillisPerSecond \div tps

\* IncrementNextGameTick jumping over a tick that is already missed
IncrementCatchingUp(current) ==
    IF tick_count - current > skip_ticks
    THEN current + 2 * skip_ticks
    ELSE current + skip_ticks

\* IncrementNextGameTick adding one millisecond
IncrementByOne(current) == current + 1

\* IncrementNextGameTick adding two tick intervals
IncrementTwice(current) == current + 2 * skip_ticks

\* IncrementNextGameTick rescheduling from the current time
IncrementFromNow(current) == tick_count + skip_ticks

\* GameLoop::increment_next_game_tick
IncrementNextGameTick(current) == current + skip_ticks

\* TickDue with the cap off by one
TickDueCapInclusive(now, next_tick, loops) ==
    now > next_tick /\ loops <= max_frameskip

\* TickDue without the max_frameskip cap
TickDueNoCap(now, next_tick, loops) ==
    now > next_tick

\* TickDue with a tick already due at its deadline
TickDueAtDeadline(now, next_tick, loops) ==
    now >= next_tick /\ loops < max_frameskip

\* TickDue only once a whole tick interval has gone by
TickDueFullInterval(now, next_tick, loops) ==
    now >= next_tick + skip_ticks /\ loops < max_frameskip

\* FrameActions::next, the condition of the first if
TickDue(now, next_tick, loops) ==
    now > next_tick /\ loops < max_frameskip

\* Interpolation measured from the next tick instead of the previous one
InterpolationWithoutSkip(render_time, next_tick) ==
    IF render_time < next_tick
    THEN Overflow
    ELSE Render(render_time - next_tick, skip_ticks)

\* FrameActions::next, the interpolation of the Render item:
\* ((render_time + skip_ticks - next_tick) as f64) / (skip_ticks as f64)
Interpolation(render_time, next_tick) ==
    IF render_time + skip_ticks < next_tick
    THEN Overflow
    ELSE Render(render_time + skip_ticks - next_tick, skip_ticks)

\* ---- reading the items a FrameActions instance has returned ----
HasNone(s) == \E i \in 1..Len(out[s]) : out[s][i].kind = "None"

FirstNone(s) == CHOOSE i \in 1..Len(out[s]) :
    /\ out[s][i].kind = "None"
    /\ \A j \in 1..(i - 1) : out[s][j].kind # "None"

\* the items of a drain: everything returned before the first end-of-sequence
Drain(s) == SubSeq(out[s], 1, FirstNone(s) - 1)

CountKind(seq, k) == Cardinality({i \in 1..Len(seq) : seq[i].kind = k})

\* zero or more Tick followed by exactly one Render, the Render last
TicksThenRender(seq) ==
    /\ Len(seq) >= 1
    /\ seq[Len(seq)].kind = "Render"
    /\ \A i \in 1..(Len(seq) - 1) : seq[i].kind = "Tick"

\* the Ticks of seq that come before its first Render
LeadingTicks(seq) ==
    Cardinality({i \in 1..Len(seq) :
        /\ seq[i].kind = "Tick"
        /\ \A j \in 1..i : seq[j].kind # "Render"})

\* the Ticks of seq that come after its last Render
TrailingTicks(seq) ==
    Cardinality({i \in 1..Len(seq) :
        /\ seq[i].kind = "Tick"
        /\ \A j \in i..Len(seq) : seq[j].kind # "Render"})

\* instance s was drained until its first end-of-sequence and not drawn again
DrainedOnce(s) == HasNone(s) /\ Len(out[s]) = FirstNone(s)

Init ==
    /\ clock \in BootInstants
    /\ result = "pending"
    /\ args = [tps |-> 0, max_frameskip |-> 0]
    /\ start_time = 0
    /\ skip_ticks = 0
    /\ max_frameskip = 0
    /\ next_game_tick = 0
    /\ it = [s \in Slots |-> NoIter]
    /\ out = [s \in Slots |-> <<>>]
    /\ poll = [s \in Slots |-> NoPoll]
    /\ idleSinceDrain = FALSE
    /\ ticks_total = 0

\* GameLoop::new(tps, max_frameskip)
New(tps, mfs) ==
    /\ result = "pending"
    /\ args' = [tps |-> tps, max_frameskip |-> mfs]
    /\ result' = Validate(tps, mfs)
    /\ IF Validate(tps, mfs) = "Ok"
       THEN /\ start_time' = clock
            /\ skip_ticks' = SkipTicksFor(tps)
            /\ max_frameskip' = mfs
            /\ next_game_tick' = 0
       ELSE UNCHANGED <<start_time, skip_ticks, max_frameskip, next_game_tick>>
    /\ UNCHANGED <<clock, it, out, poll, idleSinceDrain, ticks_total>>

\* the clock moves on by d ms between two calls into the library
Advance(d) ==
    /\ result = "Ok"
    /\ tick_count + d <= MaxTime
    /\ clock' = clock + d
    /\ poll' = [s \in Slots |-> [poll[s] EXCEPT !.still = FALSE]]
    /\ idleSinceDrain' = FALSE
    /\ UNCHANGED <<result, args, start_time, skip_ticks, max_frameskip,
                   next_game_tick, it, out, ticks_total>>

\* GameLoop::actions, the FrameActions it builds: loops 0, rendered false
NewFrameActions(s) ==
    /\ result = "Ok"
    /\ it' = [it EXCEPT ![s] = [live |-> TRUE, loops |-> 0, rendered |-> FALSE]]
    /\ out' = [out EXCEPT ![s] = <<>>]
    /\ poll' = [poll EXCEPT ![s] =
                 [backToBack |-> idleSinceDrain,
                  still |-> TRUE,
                  start_next |-> next_game_tick,
                  chained |-> ~it[s].live \/ DrainedOnce(s),
                  carry |-> IF it[s].live /\ DrainedOnce(s)
                            THEN TrailingTicks(Drain(s)) ELSE 0,
                  abandonedDue |-> /\ it[s].live
                                   /\ ~HasNone(s)
                                   /\ TickDue(tick_count, next_game_tick, it[s].loops)]]
    /\ idleSinceDrain' = FALSE
    /\ UNCHANGED <<clock, result, args, start_time, skip_ticks, max_frameskip,
                   ticks_total>>

\* Actions discarding the tick debt: the schedule is resynchronised to now
ActionsSkippingDebt(s) ==
    /\ NewFrameActions(s)
    /\ next_game_tick' = IF tick_count > next_game_tick
                         THEN tick_count ELSE next_game_tick

\* Actions scheduling the next tick itself
ActionsSchedulingTick(s) ==
    /\ NewFrameActions(s)
    /\ next_game_tick' = next_game_tick + skip_ticks

\* GameLoop::actions: a new FrameActions, held by the host in slot s; the
\* game loop itself is only borrowed
Actions(s) ==
    /\ NewFrameActions(s)
    /\ UNCHANGED next_game_tick

\* FrameActions::next, the Tick branch
NextTick(s) ==
    /\ it[s].live
    /\ Len(out[s]) < MaxDraws
    /\ TickDue(tick_count, next_game_tick, it[s].loops)
    /\ next_game_tick' = IncrementNextGameTick(next_game_tick)
    /\ it' = [it EXCEPT ![s].loops = @ + 1]
    /\ out' = [out EXCEPT ![s] = Append(@, Tick)]
    /\ idleSinceDrain' = FALSE
    /\ ticks_total' = IF ticks_total < MaxTicks THEN ticks_total + 1 ELSE ticks_total
    /\ UNCHANGED <<clock, result, args, start_time, skip_ticks, max_frameskip, poll>>

\* FrameActions::next, the Render branch; tick_count is read a second time,
\* d ms after the reading of the first if
NextRender(s, d) ==
    /\ it[s].live
    /\ Len(out[s]) < MaxDraws
    /\ ~TickDue(tick_count, next_game_tick, it[s].loops)
    /\ ~it[s].rendered
    /\ tick_count + d <= MaxTime
    /\ clock' = clock + d
    /\ it' = [it EXCEPT ![s].rendered = TRUE]
    /\ out' = [out EXCEPT ![s] =
                 Append(@, Interpolation(tick_count + d, next_game_tick))]
    /\ poll' = IF d = 0 THEN poll
               ELSE [t \in Slots |-> [poll[t] EXCEPT !.still = FALSE]]
    /\ idleSinceDrain' = FALSE
    /\ UNCHANGED <<result, args, start_time, skip_ticks, max_frameskip,
                   next_game_tick, ticks_total>>

\* FrameActions::next, the final None
NextNone(s) ==
    /\ it[s].live
    /\ Len(out[s]) < MaxDraws
    /\ ~TickDue(tick_count, next_game_tick, it[s].loops)
    /\ it[s].rendered
    /\ out' = [out EXCEPT ![s] = Append(@, None)]
    /\ idleSinceDrain' = TRUE
    /\ UNCHANGED <<clock, result, args, start_time, skip_ticks, max_frameskip,
                   next_game_tick, it, poll, ticks_total>>

Next ==
    \/ \E tps \in TpsValues, mfs \in FrameskipValues : New(tps, mfs)
    \/ \E d \in Steps : Advance(d)
    \/ \E s \in HostSlots : Actions(s)
    \/ \E s \in HostSlots : NextTick(s)
    \/ \E s \in HostSlots, d \in InCallDelays : NextRender(s, d)
    \/ \E s \in HostSlots : NextNone(s)

Spec == Init /\ [][Next]_vars

\* ---- several FrameActions of one GameLoop alive at once ----
\* actions() takes &self, so a host may hold more than one iterator and draw
\* from them in any order; calls do not overlap (Cell makes GameLoop !Sync).
SharedTpsValues == {7, 1001}
SharedFrameskipValues == {2}
SharedSteps == {200}
SharedInCallDelays == {0}

NextShared ==
    \/ \E tps \in SharedTpsValues, mfs \in SharedFrameskipValues : New(tps, mfs)
    \/ \E d \in SharedSteps : Advance(d)
    \/ \E s \in Slots : Actions(s)
    \/ \E s \in Slots : Len(out[s]) < MaxSharedDraws /\ NextTick(s)
    \/ \E s \in Slots, d \in SharedInCallDelays :
           Len(out[s]) < MaxSharedDraws /\ NextRender(s, d)
    \/ \E s \in Slots : Len(out[s]) < MaxSharedDraws /\ NextNone(s)

SpecShared == Init /\ [][NextShared]_vars

\* ---- the documented host loop, run forever ----
\* loop { for action in game_loop.actions() { ... } }: a sequence is drawn
\* until its first end-of-sequence, then the next one is created
HostDraw(s) ==
    /\ it[s].live
    /\ ~HasNone(s)
    /\ \/ NextTick(s)
       \/ \E d \in InCallDelays : NextRender(s, d)
       \/ NextNone(s)

HostPoll(s) ==
    /\ ~it[s].live \/ HasNone(s)
    /\ Actions(s)

HostStep == \E s \in HostSlots : HostDraw(s) \/ HostPoll(s)

Construct == \E tps \in TpsValues, mfs \in FrameskipValues : New(tps, mfs)

NextLive ==
    \/ Construct
    \/ \E d \in Steps : Advance(d)
    \/ \E s \in HostSlots : HostDraw(s)
    \/ \E s \in HostSlots : HostPoll(s)

\* the host loop never stops: whenever it can take a step it takes one
SpecLive == Init /\ [][NextLive]_vars /\ WF_vars(Construct) /\ WF_vars(HostStep)

TypeOK ==
    /\ result \in {"pending", "Ok", "BadTps", "BadFrameSkip"}
    /\ next_game_tick \in Nat
    /\ \A s \in Slots : Len(out[s]) <= MaxDraws

\* C1: draining a sequence until its first end-of-sequence yields zero or
\* more Tick followed by exactly one Render, the Render being the last item,
\* whatever the clock does between the draws.
C1_DrainEndsInOneRender ==
    \A s \in Slots : HasNone(s) => TicksThenRender(Drain(s))

\* C2: once a sequence has returned its Render, every later draw on it
\* returns end-of-sequence, however far the clock has advanced.
C2_ExhaustedAfterRender ==
    \A s \in Slots : \A i, j \in 1..Len(out[s]) :
        (i < j /\ out[s][i].kind = "Render") => out[s][j].kind = "None"

\* C3: a sequence returns at most max_frameskip Tick items over its life.
C3_TicksWithinFrameskip ==
    \A s \in Slots : CountKind(out[s], "Tick") <= max_frameskip

\* the cap is binding: max_frameskip Ticks returned, debt left, drawn to the end
C3_Witness ==
    \E s \in Slots :
        /\ max_frameskip >= 2
        /\ CountKind(out[s], "Tick") = max_frameskip
        /\ tick_count > next_game_tick
        /\ HasNone(s)

\* a poll that directly follows a fully drained poll, the clock unmoved since
BackToBackDrained(s) ==
    /\ poll[s].backToBack
    /\ poll[s].still
    /\ HasNone(s)

\* C4 as stated: a poll that follows a fully drained poll with no time
\* elapsed yields no Tick and exactly one Render, in every scheduler state
\* (stated here for the game loops with skip_ticks >= 1 only).
C4_SecondPollNoTick ==
    \A s \in Slots : (skip_ticks >= 1 /\ BackToBackDrained(s)) =>
        /\ CountKind(Drain(s), "Tick") = 0
        /\ CountKind(Drain(s), "Render") = 1

\* C4 amended: such a poll yields exactly one Render, and no Tick exactly
\* when the scheduler was caught up (elapsed <= next_game_tick) when the
\* poll began; with debt left by a capped first poll it yields Ticks again.
C4_SecondPollNoTickWhenCaughtUp ==
    \A s \in Slots : BackToBackDrained(s) =>
        /\ CountKind(Drain(s), "Render") = 1
        /\ (tick_count <= poll[s].start_next) <=> (CountKind(Drain(s), "Tick") = 0)

C4_Witness ==
    \E s \in Slots :
        /\ BackToBackDrained(s)
        /\ tick_count > 0
        /\ tick_count <= poll[s].start_next
        /\ Drain(s) = <<Render(tick_count + skip_ticks - next_game_tick, skip_ticks)>>

\* C5: new fails with BadTps exactly when tps < 1 and with BadFrameSkip
\* exactly when tps >= 1 and max_frameskip < 1 (tps is checked first); on an
\* error there is no game loop: nothing is initialised and nothing can poll.
C5_ConstructionErrors ==
    result # "pending" =>
        /\ (result = "BadTps") <=> (args.tps < 1)
        /\ (result = "BadFrameSkip") <=> (args.tps >= 1 /\ args.max_frameskip < 1)
        /\ result # "Ok" =>
              /\ skip_ticks = 0 /\ max_frameskip = 0 /\ next_game_tick = 0
              /\ \A s \in Slots : ~it[s].live

C5_Witness ==
    /\ result = "BadTps"
    /\ args = [tps |-> 0, max_frameskip |-> 0]

\* C6: for tps >= 1 and max_frameskip >= 1 new succeeds, and the new game
\* loop has skip_ticks = 1000 / tps truncated, max_frameskip as given and
\* next_game_tick = 0.
C6_ConstructionSucceeds ==
    result # "pending" =>
        /\ (args.tps >= 1 /\ args.max_frameskip >= 1) => result = "Ok"
        /\ result = "Ok" =>
              /\ skip_ticks * args.tps <= MillisPerSecond
              /\ MillisPerSecond < (skip_ticks + 1) * args.tps
              /\ max_frameskip = args.max_frameskip
              /\ (\A s \in Slots : ~it[s].live) => next_game_tick = 0

C6_Witness ==
    /\ result = "Ok"
    /\ args.tps = 7
    /\ skip_ticks = 142
    /\ \A s \in Slots : ~it[s].live

\* the first poll of new(20, 5), begun with the clock at e and drained with
\* the clock unmoved
FirstPollAt(s, e) ==
    /\ result = "Ok"
    /\ args = [tps |-> 20, max_frameskip |-> 5]
    /\ poll[s].start_next = 0
    /\ poll[s].still
    /\ tick_count = e
    /\ HasNone(s)

\* C7: new(20, 5) first polled at 230 ms yields exactly 5 Tick then one
\* Render; first polled at 400 ms it yields exactly 5 Tick then one Render
\* of interpolation (400 + 50 - 250) / 50 = 4.
C7_WorkedExamples ==
    \A s \in Slots :
        /\ FirstPollAt(s, 230) =>
              Drain(s) = <<Tick, Tick, Tick, Tick, Tick, Render(30, 50)>>
        /\ FirstPollAt(s, 400) =>
              /\ Drain(s) = <<Tick, Tick, Tick, Tick, Tick, Render(200, 50)>>
              /\ Drain(s)[6].num = 4 * Drain(s)[6].den

C7_Witness ==
    \E s \in Slots :
        /\ FirstPollAt(s, 230)
        /\ CountKind(Drain(s), "Tick") = 5
        /\ next_game_tick = 250

C7_Witness400 ==
    \E s \in Slots : FirstPollAt(s, 400) /\ next_game_tick = 250

\* C8: a freshly created game loop polled while 0 ms have elapsed yields no
\* Tick and one Render of interpolation exactly 1, and next_game_tick stays 0.
C8_FreshPollInterpolationOne ==
    \A s \in Slots :
        (result = "Ok" /\ tick_count = 0 /\ HasNone(s)) =>
            /\ Len(Drain(s)) = 1
            /\ Drain(s)[1].kind = "Render"
            /\ Drain(s)[1].den # 0
            /\ Drain(s)[1].num = Drain(s)[1].den
            /\ next_game_tick = 0

\* a whole multiple k * skip_ticks with 0 <= k
IsMultiple(n) == \E k \in 0..n : n = k * skip_ticks

\* C9: next_game_tick is always a non-negative whole multiple of skip_ticks;
\* it never decreases and changes only by whole multiples of skip_ticks.
C9_DeadlineMultiple ==
    /\ [](next_game_tick >= 0 /\ IsMultiple(next_game_tick))
    /\ [][/\ next_game_tick' >= next_game_tick
           /\ \E k \in 0..(next_game_tick' - next_game_tick) :
                 next_game_tick' - next_game_tick = k * skip_ticks']_vars

C9_Witness ==
    /\ skip_ticks = 142
    /\ next_game_tick = 284
    /\ \E s \in Slots : CountKind(out[s], "Tick") >= 1

\* C10: polling is total for every constructed game loop: the subtraction
\* render_time + skip_ticks - next_tick never underflows and the
\* interpolation division never has a zero divisor.
C10_PollingTotal ==
    \A s \in Slots : \A i \in 1..Len(out[s]) :
        /\ out[s][i].kind # "Overflow"
        /\ out[s][i].kind = "Render" => out[s][i].den # 0

\* C11: in the stream of actions the host receives from successive fully
\* drained polls, no more than max_frameskip Ticks occur between two
\* consecutive Renders or before the first Render.  (carry is the number of
\* Ticks the previous drain returned after its Render; stated here for the
\* game loops with skip_ticks >= 1 only.)
C11_TicksBetweenRenders ==
    \A s \in Slots :
        (skip_ticks >= 1 /\ poll[s].chained) =>
            poll[s].carry + LeadingTicks(out[s]) <= max_frameskip

\* the first poll of a sequence begun while a Tick was due to, and not yet
\* drawn from, the sequence it replaces; drained with the clock unmoved
AfterAbandoned(s) ==
    /\ poll[s].abandonedDue
    /\ poll[s].still
    /\ HasNone(s)

\* C12 as stated: the Ticks an abandoned sequence had not yet emitted are
\* lost; a later poll does not emit them.  With the clock unmoved since the
\* abandonment every Tick of the later poll is one of those (stated here for
\* the game loops with skip_ticks >= 1 only).
C12_AbandonedTicksLost ==
    \A s \in Slots :
        (skip_ticks >= 1 /\ AfterAbandoned(s)) => CountKind(Drain(s), "Tick") = 0

\* C12 amended: abandoning a sequence leaves next_game_tick as it is, so the
\* undrawn Ticks stay due: the next poll, at the same clock reading, returns
\* the Ticks a poll returns for that deadline (at least one, one per deadline
\* already past, up to max_frameskip) and then one Render.
C12_AbandonedTicksStayDue ==
    \A s \in Slots : AfterAbandoned(s) =>
        LET k == CountKind(Drain(s), "Tick") IN
        /\ k >= 1
        /\ k <= max_frameskip
        /\ \A j \in 0..(k - 1) : poll[s].start_next + j * skip_ticks < tick_count
        /\ k < max_frameskip => poll[s].start_next + k * skip_ticks >= tick_count
        /\ TicksThenRender(Drain(s))

C12_Witness ==
    \E s \in Slots :
        /\ AfterAbandoned(s)
        /\ skip_ticks >= 1
        /\ CountKind(Drain(s), "Tick") >= 2
        /\ next_game_tick >= tick_count

\* a step in which instance s returns one more item
Draws(s) ==
    /\ Len(out'[s]) = Len(out[s]) + 1
    /\ SubSeq(out'[s], 1, Len(out[s])) = out[s]

Returned(s) == out'[s][Len(out'[s])]

\* C13: a draw returns Tick exactly when the elapsed time is strictly greater
\* than next_game_tick and the instance has returned fewer than max_frameskip
\* Ticks; a Tick advances next_game_tick by exactly skip_ticks and loops by 1.
\* So a drain with the clock fixed at e that starts at deadline d returns
\* min(max_frameskip, number of i >= 0 with d + i * skip_ticks < e) Ticks,
\* and at least one on a fresh game loop with e > 0.
C13_TickRule ==
    /\ [][\A s \in Slots : Draws(s) =>
            /\ (Returned(s).kind = "Tick") <=>
                  (tick_count > next_game_tick /\ it[s].loops < max_frameskip)
            /\ Returned(s).kind = "Tick" =>
                  /\ next_game_tick' = next_game_tick + skip_ticks
                  /\ it'[s].loops = it[s].loops + 1]_vars
    /\ [](\A s \in Slots : (poll[s].still /\ HasNone(s)) =>
            LET k == CountKind(Drain(s), "Tick") IN
            /\ k <= max_frameskip
            /\ \A j \in 0..(k - 1) : poll[s].start_next + j * skip_ticks < tick_count
            /\ k < max_frameskip => poll[s].start_next + k * skip_ticks >= tick_count
            /\ (poll[s].start_next = 0 /\ tick_count > 0) => k >= 1)

C13_Witness ==
    \E s \in Slots :
        /\ poll[s].still /\ HasNone(s)
        /\ poll[s].start_next = 142
        /\ tick_count = 330
        /\ max_frameskip = 5
        /\ CountKind(Drain(s), "Tick") = 2

\* C14: the interpolation of a Render is (elapsed_render + skip_ticks -
\* next_game_tick) / skip_ticks, with next_game_tick as left by the Ticks
\* already returned and elapsed_render the clock reading taken when the
\* Render is produced, so time passing during the poll shows in it.
C14_RenderInterpolation ==
    [][\A s \in Slots : (Draws(s) /\ Returned(s).kind = "Render") =>
            /\ Returned(s).num = tick_count' + skip_ticks - next_game_tick
            /\ Returned(s).den = skip_ticks
            /\ next_game_tick = poll[s].start_next
                    + CountKind(out[s], "Tick") * skip_ticks]_vars

\* a Render whose reading of the clock is later than the reading of the tick
\* check: at that time a Tick would have been due
C14_Witness ==
    \E s \in Slots :
        /\ skip_ticks = 50
        /\ it[s].loops = 0
        /\ next_game_tick = 0
        /\ out[s] = <<Render(80, 50)>>

\* C15: only the return of a Tick changes the game loop: actions(), a
\* Render and end-of-sequence leave next_game_tick as it is, and start_time,
\* skip_ticks and max_frameskip never change after construction.
C15_OnlyTickChangesState ==
    [][result = "Ok" =>
        /\ start_time' = start_time
        /\ skip_ticks' = skip_ticks
        /\ max_frameskip' = max_frameskip
        /\ next_game_tick' # next_game_tick =>
              \E s \in Slots : Draws(s) /\ Returned(s).kind = "Tick"
        /\ \A s \in Slots :
              (out'[s] # out[s] /\ (~Draws(s) \/ Returned(s).kind # "Tick")) =>
                  next_game_tick' = next_game_tick]_vars

\* a drained poll that returned Ticks, a Render and end-of-sequence, begun
\* after an earlier poll
C15_Witness ==
    \E s \in Slots :
        /\ HasNone(s)
        /\ poll[s].start_next > 0
        /\ next_game_tick > poll[s].start_next
        /\ CountKind(out[s], "Render") = 1

\* the items of instance s that are actions, not end-of-sequence
ActionCount(s) == Len(out[s]) - CountKind(out[s], "None")

\* C16: a sequence yields at most max_frameskip + 1 actions over its whole
\* life, so a drain reaches end-of-sequence within max_frameskip + 2 draws
\* however the clock advances.
C16_DrainTerminates ==
    \A s \in Slots :
        /\ ActionCount(s) <= max_frameskip + 1
        /\ Len(out[s]) >= max_frameskip + 2 =>
              (HasNone(s) /\ FirstNone(s) <= max_frameskip + 2)

\* the longest drain: max_frameskip Ticks, the Render, then end-of-sequence
C16_Witness ==
    \E s \in Slots :
        /\ max_frameskip = 5
        /\ HasNone(s)
        /\ FirstNone(s) = max_frameskip + 2
        /\ ActionCount(s) = max_frameskip + 1

\* C17: with skip_ticks >= 1 the simulation never runs ahead of the clock:
\* next_game_tick is 0 or strictly less than elapsed + skip_ticks, and the
\* numerator of every Render is >= 1 (interpolation strictly positive).
C17_NeverAheadOfClock ==
    skip_ticks >= 1 =>
        /\ next_game_tick = 0 \/ next_game_tick < tick_count + skip_ticks
        /\ \A s \in Slots : \A i \in 1..Len(out[s]) :
              /\ out[s][i].kind # "Overflow"
              /\ out[s][i].kind = "Render" => out[s][i].num >= 1

\* the deadline is ahead of the clock and a Render came out with it
C17_Witness ==
    \E s \in Slots :
        /\ skip_ticks >= 1
        /\ next_game_tick > tick_count
        /\ Len(out[s]) >= 2
        /\ out[s][Len(out[s]) - 1].kind = "Tick"
        /\ out[s][Len(out[s])].kind = "Render"
        /\ out[s][Len(out[s])].num < skip_ticks

\* C20: a Render returned because the game loop is caught up (elapsed <=
\* next_game_tick at the tick check), with no time passing between that check
\* and the Render's reading of the clock, has its numerator in
\* [1, skip_ticks], i.e. interpolation in (0, 1].
C20_CaughtUpInterpolation ==
    [][\A s \in Slots :
          (/\ Draws(s)
           /\ Returned(s).kind = "Render"
           /\ tick_count <= next_game_tick
           /\ clock' = clock) =>
              (Returned(s).num >= 1 /\ Returned(s).num <= skip_ticks)]_vars

\* C18: tick accounting is exact under any usage, also with draws
\* interleaved between several live sequences and with abandoned sequences:
\* next_game_tick = skip_ticks * (Ticks returned by all sequences since
\* construction); every Tick advances the deadline by skip_ticks and nothing
\* else moves it.
TickReturned == \E s \in Slots : Draws(s) /\ Returned(s).kind = "Tick"

C18_TickAccounting ==
    /\ [](ticks_total < MaxTicks => next_game_tick = skip_ticks * ticks_total)
    /\ [][TickReturned => (next_game_tick' = next_game_tick + skip_ticks)]_vars
    /\ [][(next_game_tick' # next_game_tick) => TickReturned]_vars

\* two live sequences, each has returned a Tick, neither is drained
C18_Witness ==
    /\ skip_ticks >= 1
    /\ \A s \in Slots :
          /\ it[s].live
          /\ CountKind(out[s], "Tick") >= 1
          /\ ~HasNone(s)
    /\ ticks_total >= 3
    /\ next_game_tick = skip_ticks * ticks_total

\* every poll on record returned no Tick, and one Render if it is drained
QuietPolls ==
    \A s \in Slots :
        /\ CountKind(out[s], "Tick") = 0
        /\ HasNone(s) => Drain(s) = <<Render(tick_count + skip_ticks - next_game_tick,
                                             skip_ticks)>>

\* C19: for every game loop that was constructed, if the clock stops and the
\* host keeps polling and draining, then eventually a poll yields no Tick,
\* and from then on every poll yields no Tick and one Render.
C19_DebtPaidDown ==
    <>[][clock' = clock]_clock => <>[](result = "Ok" => QuietPolls)
====
